---- MODULE Spec2Model ----
(***************************************************************************)
(* Model of videos/child-imagination.py: a sequential script that submits  *)
(* a video generation job, polls the operation handle until it reports     *)
(* done, selects the first generated video, downloads it and saves it to   *)
(* a fixed file.                                                           *)
(*                                                                         *)
(* The script is one thread of control; pc is the statement it is at.      *)
(* Every blocking call to the service is two steps (the request is sent,   *)
(* the call returns or raises), so the remote job can change state while   *)
(* the script waits.  The service is the environment: what it answers is   *)
(* nondeterministic.  An exception is never caught: it ends the run.       *)
(***************************************************************************)
EXTENDS Naturals, Sequences, FiniteSets

\* Bounds of the model.
MaxPolls == 3
MaxArtifacts == 2

\* Literals of the script.
SleepSeconds == 10
WaitingMessage == "Waiting for video generation to complete..."
OutputPath == "style_example.mp4"
SavedMessage == "Generated video saved to style_example.mp4"

\* generated_video before line 19 binds it.
NoVideo == 0

VARIABLES
    pc,               \* the statement the script is at
    operation,        \* the local handle snapshot (the name `operation`)
    generated_video,  \* the selected artifact (the name `generated_video`)
    remote,           \* the job as the service holds it
    inflight,         \* requests sent to the service and not yet answered
    calls,            \* history: every call the script made, in order
    stdout,           \* history: every line printed
    slept,            \* history: the duration of every sleep
    snapshots,        \* history: the done flag of every handle returned
    fetched,          \* the handle the service returned last
    getArg,           \* the handle carried by the operations.get in flight
    downloaded,       \* history: the artifact passed to every download
    files,            \* the working directory: the files written
    fault             \* the call whose exception ended the run

vars == <<pc, operation, generated_video, remote, inflight, calls, stdout,
          slept, snapshots, fetched, getArg, downloaded, files, fault>>

Artifacts == 1..MaxArtifacts

\* The lists of generated videos a response can carry: distinct artifacts.
VideoLists ==
    {s \in UNION {[1..n -> Artifacts] : n \in 0..MaxArtifacts} :
        \A i, j \in DOMAIN s : s[i] = s[j] => i = j}

NoResponse == [present |-> FALSE, generated_videos |-> <<>>]

Responses == {NoResponse} \cup
    {[present |-> TRUE, generated_videos |-> v] : v \in VideoLists}

\* What the service can hold for a job.  The script assumes nothing about
\* it, so neither does the model: the done flag and the response are
\* independent (a pending job may already carry a response, a done one may
\* carry a list of any length, or none at all).
RemoteStates ==
    {[exists |-> TRUE, done |-> d, response |-> r] :
        d \in BOOLEAN, r \in Responses}

NoJob == [exists |-> FALSE, done |-> FALSE, response |-> NoResponse]

Unbound == [name |-> "unbound", done |-> FALSE, response |-> NoResponse]

\* The handle the service returns for its job: a copy of the job's state.
Snapshot(name, job) ==
    [name |-> name, done |-> job.done, response |-> job.response]

Count(s, x) == Cardinality({i \in DOMAIN s : s[i] = x})

Last(s) == s[Len(s)]

Init ==
    /\ pc = "start"
    /\ operation = Unbound
    /\ generated_video = NoVideo
    /\ remote = NoJob
    /\ inflight = {}
    /\ calls = <<>>
    /\ stdout = <<>>
    /\ slept = <<>>
    /\ snapshots = <<>>
    /\ fetched = Unbound
    /\ getArg = Unbound
    /\ downloaded = <<>>
    /\ files = {}
    /\ fault = "none"

\* An unhandled exception raised by `call`: the process ends.
Raise(call) ==
    /\ pc' = "faulted"
    /\ fault' = call
    /\ inflight' = {}

\* Line 7: client.models.generate_videos(model=..., prompt=prompt) is sent.
GenerateVideosCall ==
    /\ pc = "start"
    /\ pc' = "generate_videos"
    /\ inflight' = inflight \cup {"generate_videos"}
    /\ calls' = Append(calls, "generate_videos")
    /\ UNCHANGED <<operation, generated_video, remote, stdout, slept,
                   snapshots, fetched, getArg, downloaded, files, fault>>

\* Mutant: a do-while loop, whose body runs once before the flag is tested.
GenerateVideosReturn_DoWhile ==
    /\ pc = "generate_videos"
    /\ \E job \in RemoteStates :
        /\ remote' = job
        /\ operation' = Snapshot("operation", job)
        /\ fetched' = Snapshot("operation", job)
        /\ snapshots' = Append(snapshots, [done |-> job.done])
    /\ pc' = "print_waiting"
    /\ inflight' = inflight \ {"generate_videos"}
    /\ UNCHANGED <<generated_video, calls, stdout, slept, getArg,
                   downloaded, files, fault>>

\* Line 7: the call returns a handle and `operation` is bound to it.
GenerateVideosReturn ==
    /\ pc = "generate_videos"
    /\ \E job \in RemoteStates :
        /\ remote' = job
        /\ operation' = Snapshot("operation", job)
        /\ fetched' = Snapshot("operation", job)
        /\ snapshots' = Append(snapshots, [done |-> job.done])
    /\ pc' = "while"
    /\ inflight' = inflight \ {"generate_videos"}
    /\ UNCHANGED <<generated_video, calls, stdout, slept, getArg,
                   downloaded, files, fault>>

\* Line 7: the call raises.
GenerateVideosRaise ==
    /\ pc = "generate_videos"
    /\ Raise("generate_videos")
    /\ UNCHANGED <<operation, generated_video, remote, calls, stdout, slept,
                   snapshots, fetched, getArg, downloaded, files>>

\* Mutant: the loop condition inverted (while operation.done).
WhileNotDone_Inverted ==
    /\ pc = "while"
    /\ IF ~operation.done
          THEN pc' = "select"
          ELSE /\ Count(calls, "get") < MaxPolls
               /\ pc' = "print_waiting"
    /\ UNCHANGED <<operation, generated_video, remote, inflight, calls,
                   stdout, slept, snapshots, fetched, getArg, downloaded, files,
                   fault>>

\* Line 13: while not operation.done.  The guard on the number of polls
\* bounds the model; the script has none.
WhileNotDone ==
    /\ pc = "while"
    /\ IF operation.done
          THEN pc' = "select"
          ELSE /\ Count(calls, "get") < MaxPolls
               /\ pc' = "print_waiting"
    /\ UNCHANGED <<operation, generated_video, remote, inflight, calls,
                   stdout, slept, snapshots, fetched, getArg, downloaded, files,
                   fault>>

\* Line 14: print("Waiting for video generation to complete...").
PrintWaiting ==
    /\ pc = "print_waiting"
    /\ stdout' = Append(stdout, WaitingMessage)
    /\ calls' = Append(calls, "print_waiting")
    /\ pc' = "sleep"
    /\ UNCHANGED <<operation, generated_video, remote, inflight, slept,
                   snapshots, fetched, getArg, downloaded, files, fault>>

\* Mutant: a backoff, each sleep longer than the one before.
Sleep_Backoff ==
    /\ pc = "sleep"
    /\ slept' = Append(slept, SleepSeconds * (Len(slept) + 1))
    /\ calls' = Append(calls, "sleep")
    /\ pc' = "get"
    /\ UNCHANGED <<operation, generated_video, remote, inflight, stdout,
                   snapshots, fetched, getArg, downloaded, files, fault>>

\* Line 15: time.sleep(10).
Sleep ==
    /\ pc = "sleep"
    /\ slept' = Append(slept, SleepSeconds)
    /\ calls' = Append(calls, "sleep")
    /\ pc' = "get"
    /\ UNCHANGED <<operation, generated_video, remote, inflight, stdout,
                   snapshots, fetched, getArg, downloaded, files, fault>>

\* Line 16: client.operations.get(operation) is sent with the current handle.
OperationsGetCall ==
    /\ pc = "get"
    /\ getArg' = operation
    /\ calls' = Append(calls, "get")
    /\ inflight' = inflight \cup {"get"}
    /\ pc' = "operations_get"
    /\ UNCHANGED <<operation, generated_video, remote, stdout, slept,
                   snapshots, fetched, downloaded, files, fault>>

\* Mutant: the result of operations.get is not assigned to `operation`.
OperationsGetReturn_Discarded ==
    /\ pc = "operations_get"
    /\ fetched' = Snapshot(getArg.name, remote)
    /\ snapshots' = Append(snapshots, [done |-> remote.done])
    /\ getArg' = Unbound
    /\ inflight' = inflight \ {"get"}
    /\ pc' = "while"
    /\ UNCHANGED <<operation, generated_video, remote, calls, stdout, slept,
                   downloaded, files, fault>>

\* Mutant: an `if` in place of the `while`, one poll and on to the download.
OperationsGetReturn_NoRetest ==
    /\ pc = "operations_get"
    /\ operation' = Snapshot(getArg.name, remote)
    /\ fetched' = Snapshot(getArg.name, remote)
    /\ snapshots' = Append(snapshots, [done |-> remote.done])
    /\ getArg' = Unbound
    /\ inflight' = inflight \ {"get"}
    /\ pc' = "select"
    /\ UNCHANGED <<generated_video, remote, calls, stdout, slept,
                   downloaded, files, fault>>

\* Line 16: the call returns a fresh snapshot of the job the passed handle
\* names, and `operation` is rebound to it.
OperationsGetReturn ==
    /\ pc = "operations_get"
    /\ operation' = Snapshot(getArg.name, remote)
    /\ fetched' = Snapshot(getArg.name, remote)
    /\ snapshots' = Append(snapshots, [done |-> remote.done])
    /\ getArg' = Unbound
    /\ inflight' = inflight \ {"get"}
    /\ pc' = "while"
    /\ UNCHANGED <<generated_video, remote, calls, stdout, slept,
                   downloaded, files, fault>>

\* Mutant: a failed status query is caught and the query repeated.
OperationsGetRaise_Retried ==
    /\ pc = "operations_get"
    /\ fault' = "get"
    /\ inflight' = {}
    /\ pc' = "get"
    /\ UNCHANGED <<operation, generated_video, remote, calls, stdout, slept,
                   snapshots, fetched, getArg, downloaded, files>>

\* Mutant: a failed status query is caught and the job submitted again.
OperationsGetRaise_Resubmitted ==
    /\ pc = "operations_get"
    /\ inflight' = {}
    /\ pc' = "start"
    /\ UNCHANGED <<operation, generated_video, remote, calls, stdout, slept,
                   snapshots, fetched, getArg, downloaded, files, fault>>

\* Line 16: the call raises.
OperationsGetRaise ==
    /\ pc = "operations_get"
    /\ Raise("get")
    /\ UNCHANGED <<operation, generated_video, remote, calls, stdout, slept,
                   snapshots, fetched, getArg, downloaded, files>>

\* Mutant: the last artifact of the list is selected (index -1).
SelectFirst_Last ==
    /\ pc = "select"
    /\ IF operation.response.present
          /\ Len(operation.response.generated_videos) >= 1
          THEN /\ generated_video' = Last(operation.response.generated_videos)
               /\ pc' = "download"
               /\ UNCHANGED <<fault, inflight>>
          ELSE /\ Raise("select")
               /\ UNCHANGED generated_video
    /\ UNCHANGED <<operation, remote, calls, stdout, slept, snapshots, fetched,
                   getArg, downloaded, files>>

\* Mutant: an empty or missing list is tolerated and the flow goes on.
SelectFirst_Tolerant ==
    /\ pc = "select"
    /\ IF operation.response.present
          /\ Len(operation.response.generated_videos) >= 1
          THEN generated_video' = operation.response.generated_videos[1]
          ELSE UNCHANGED generated_video
    /\ pc' = "download"
    /\ UNCHANGED <<operation, remote, inflight, calls, stdout, slept,
                   snapshots, fetched, getArg, downloaded, files, fault>>

\* Line 19: generated_video = operation.response.generated_videos[0].
\* With no response, or an empty list, the expression raises.
SelectFirst ==
    /\ pc = "select"
    /\ IF operation.response.present
          /\ Len(operation.response.generated_videos) >= 1
          THEN /\ generated_video' = operation.response.generated_videos[1]
               /\ pc' = "download"
               /\ UNCHANGED <<fault, inflight>>
          ELSE /\ Raise("select")
               /\ UNCHANGED generated_video
    /\ UNCHANGED <<operation, remote, calls, stdout, slept, snapshots, fetched,
                   getArg, downloaded, files>>

\* Line 20: client.files.download(file=generated_video.video) is sent.
FilesDownloadCall ==
    /\ pc = "download"
    /\ downloaded' = Append(downloaded, generated_video)
    /\ calls' = Append(calls, "download")
    /\ inflight' = inflight \cup {"download"}
    /\ pc' = "files_download"
    /\ UNCHANGED <<operation, generated_video, remote, stdout, slept,
                   snapshots, fetched, getArg, files, fault>>

\* Line 20: the call returns.
FilesDownloadReturn ==
    /\ pc = "files_download"
    /\ inflight' = inflight \ {"download"}
    /\ pc' = "save"
    /\ UNCHANGED <<operation, generated_video, remote, calls, stdout, slept,
                   snapshots, fetched, getArg, downloaded, files, fault>>

\* Line 20: the call raises.
FilesDownloadRaise ==
    /\ pc = "files_download"
    /\ Raise("download")
    /\ UNCHANGED <<operation, generated_video, remote, calls, stdout, slept,
                   snapshots, fetched, getArg, downloaded, files>>

\* Line 21: generated_video.video.save("style_example.mp4") writes the file.
Save ==
    /\ pc = "save"
    /\ calls' = Append(calls, "save")
    /\ files' = files \cup {[path |-> OutputPath, video |-> generated_video]}
    /\ pc' = "print_saved"
    /\ UNCHANGED <<operation, generated_video, remote, inflight, stdout,
                   slept, snapshots, fetched, getArg, downloaded, fault>>

\* Mutant: a failed write is caught and the script goes on to the print.
SaveRaise_Swallowed ==
    /\ pc = "save"
    /\ calls' = Append(calls, "save")
    /\ fault' = "save"
    /\ pc' = "print_saved"
    /\ UNCHANGED <<operation, generated_video, remote, inflight, stdout,
                   slept, snapshots, fetched, getArg, downloaded, files>>

\* Line 21: the write raises.
SaveRaise ==
    /\ pc = "save"
    /\ calls' = Append(calls, "save")
    /\ Raise("save")
    /\ UNCHANGED <<operation, generated_video, remote, stdout, slept,
                   snapshots, fetched, getArg, downloaded, files>>

\* Line 22: print("Generated video saved to style_example.mp4").
PrintSaved ==
    /\ pc = "print_saved"
    /\ stdout' = Append(stdout, SavedMessage)
    /\ calls' = Append(calls, "print_saved")
    /\ pc' = "done"
    /\ UNCHANGED <<operation, generated_video, remote, inflight, slept,
                   snapshots, fetched, getArg, downloaded, files, fault>>

\* The service changes the job it holds: it completes it, replaces its
\* response while it is pending, or rewrites it in any other way.  The script
\* assumes nothing about how the job evolves.  Nothing local changes.
RemoteChanges ==
    /\ remote.exists
    /\ \E job \in RemoteStates :
        /\ job # remote
        /\ remote' = job
    /\ UNCHANGED <<pc, operation, generated_video, inflight, calls, stdout,
                   slept, snapshots, fetched, getArg, downloaded, files, fault>>

Next ==
    \/ GenerateVideosCall
    \/ GenerateVideosReturn
    \/ GenerateVideosRaise
    \/ WhileNotDone
    \/ PrintWaiting
    \/ Sleep
    \/ OperationsGetCall
    \/ OperationsGetReturn
    \/ OperationsGetRaise
    \/ SelectFirst
    \/ FilesDownloadCall
    \/ FilesDownloadReturn
    \/ FilesDownloadRaise
    \/ Save
    \/ SaveRaise
    \/ PrintSaved
    \/ RemoteChanges

Spec == Init /\ [][Next]_vars

\* The interpreter always goes on to evaluate the loop condition.
FairSpec == Spec /\ WF_vars(WhileNotDone)

----------------------------------------------------------------------------
\* Vocabulary of the properties.

\* The script is inside the polling loop (lines 13-16).
InLoop == pc \in {"while", "print_waiting", "sleep", "get", "operations_get"}

\* The script has left the polling loop (lines 19-22 or an exception there).
PastLoop ==
    \/ pc \in {"select", "download", "files_download", "save", "print_saved",
               "done"}
    \/ pc = "faulted" /\ fault \in {"select", "download", "save"}

\* The number of not-done handle snapshots observed so far.
NotDoneSnapshots == Cardinality({i \in DOMAIN snapshots : ~snapshots[i].done})

\* A handle that carries no artifact to select.
NoArtifact(h) ==
    ~h.response.present \/ Len(h.response.generated_videos) = 0

RECURSIVE Cycles(_)
Cycles(k) ==
    IF k = 0 THEN <<>>
    ELSE Cycles(k - 1) \o <<"print_waiting", "sleep", "get">>

\* The calls of a complete run with k polling cycles.
FullRun(k) ==
    <<"generate_videos">> \o Cycles(k) \o <<"download", "save", "print_saved">>

IsPrefix(s, t) == Len(s) <= Len(t) /\ \A i \in DOMAIN s : s[i] = t[i]

\* Everything the script itself owns (all but the remote job).
local == <<pc, operation, generated_video, inflight, calls, stdout, slept,
           snapshots, fetched, getArg, downloaded, files, fault>>

----------------------------------------------------------------------------
\* C1: the polling loop is left exactly on a handle snapshot with done=true:
\* past the loop the current snapshot is done and every earlier one was not;
\* a step out of the loop test goes to the artifact selection when the
\* snapshot is done and into the loop body when it is not; with no done
\* snapshot the run is still in the loop (or a call of the loop raised); and
\* a done snapshot under test always leads to the artifact selection.
C1_LoopExitsIffDone ==
    /\ [](PastLoop =>
            /\ operation.done
            /\ \A i \in 1..(Len(snapshots) - 1) : ~snapshots[i].done)
    /\ []((snapshots # <<>> /\ \A i \in DOMAIN snapshots : ~snapshots[i].done)
            => InLoop \/ (pc = "faulted" /\ fault = "get"))
    /\ [][pc = "while" /\ pc' # "while" =>
            IF operation.done THEN pc' = "select" ELSE pc' = "print_waiting"]_vars
    /\ [][pc' = "select" /\ pc # "select" => pc = "while" /\ operation.done]_vars
    /\ ((pc = "while" /\ operation.done) ~> PastLoop)

C1_Witness ==
    /\ pc = "select"
    /\ Len(snapshots) = 3
    /\ ~snapshots[1].done /\ ~snapshots[2].done /\ snapshots[3].done

\* C2: whenever a download or a save call has been made, the most recently
\* fetched handle snapshot (which is the local handle) has done=true.
C2_WriteOnlyAfterDone ==
    (Count(calls, "download") > 0 \/ Count(calls, "save") > 0 \/ files # {})
        => Last(snapshots).done /\ operation.done

C2_Witness ==
    /\ Count(calls, "save") = 1
    /\ files # {}
    /\ Len(snapshots) >= 2

\* C3: with k not-done snapshots followed by a done one, past the loop the
\* run has made exactly k waiting prints, k sleeps and k status queries; a
\* run that completes made them as k cycles followed by exactly one download
\* and one save; when the first snapshot is done none of them is ever made.
C3_ExactlyKCycles ==
    /\ PastLoop =>
        /\ Count(calls, "print_waiting") = NotDoneSnapshots
        /\ Count(stdout, WaitingMessage) = NotDoneSnapshots
        /\ Count(calls, "sleep") = NotDoneSnapshots
        /\ Len(slept) = NotDoneSnapshots
        /\ Count(calls, "get") = NotDoneSnapshots
        /\ Count(calls, "save") <= 1
    /\ pc = "done" =>
        /\ Count(calls, "save") = 1
        /\ calls = FullRun(NotDoneSnapshots)
    /\ (snapshots # <<>> /\ snapshots[1].done) =>
        /\ Count(calls, "print_waiting") = 0
        /\ Count(calls, "sleep") = 0
        /\ Count(calls, "get") = 0
        /\ stdout \in {<<>>, <<SavedMessage>>}

C3_Witness ==
    /\ pc = "done"
    /\ NotDoneSnapshots = 2
    /\ Len(operation.response.generated_videos) = 1
    /\ Count(stdout, WaitingMessage) = 2

\* C4: the artifact selected, every artifact passed to download and the
\* artifact of every file written is the one at index 0 of the completed
\* handle's list, whatever the length of the list.
C4_FirstArtifact ==
    /\ generated_video # NoVideo =>
        /\ operation.done
        /\ Len(operation.response.generated_videos) >= 1
        /\ generated_video = operation.response.generated_videos[1]
    /\ \A i \in DOMAIN downloaded :
        downloaded[i] = operation.response.generated_videos[1]
    /\ \A f \in files : f.video = operation.response.generated_videos[1]

C4_Witness ==
    /\ files # {}
    /\ Len(operation.response.generated_videos) >= 2
    /\ operation.response.generated_videos[1] = 2
    /\ downloaded = <<2>>

\* C5: an exception of generate_videos, operations.get, files.download or
\* save ends the run at that call: the run is faulted exactly when a call
\* raised, the call that raised is the last call made, nothing local changes
\* afterwards, no save follows a failed submission, poll or download, and
\* the completion message is never printed.
C5_FaultIsTerminal ==
    /\ [](fault # "none" <=> pc = "faulted")
    /\ [](pc = "faulted" =>
            /\ inflight = {}
            /\ Count(stdout, SavedMessage) = 0
            /\ Count(calls, "print_saved") = 0
            /\ fault \in {"generate_videos", "get", "download", "save"}
                 => Last(calls) = fault
            /\ fault \in {"generate_videos", "get", "download"}
                 => Count(calls, "save") = 0 /\ files = {})
    /\ [][pc = "faulted" => UNCHANGED local]_vars
    /\ [][pc' = "faulted" /\ pc # "faulted" =>
            /\ pc = "generate_videos" => fault' = "generate_videos"
            /\ pc = "operations_get" => fault' = "get"
            /\ pc = "files_download" => fault' = "download"
            /\ pc = "save" => fault' = "save"]_vars

C5_Witness ==
    /\ pc = "faulted"
    /\ fault = "get"
    /\ Count(calls, "get") = 2
    /\ remote.done

\* C6: the completion message is printed at most once, only with the file
\* style_example.mp4 written by a save that returned, and a run is done
\* exactly when it has printed it; after a save that returned the only thing
\* left is the print, which is enabled.
C6_CompletionMessage ==
    /\ Count(stdout, SavedMessage) <= 1
    /\ Count(stdout, SavedMessage) = 1 =>
        /\ files = {[path |-> OutputPath, video |-> generated_video]}
        /\ Count(calls, "save") = 1
        /\ fault = "none"
        /\ Last(stdout) = SavedMessage
    /\ pc = "done" <=> Count(stdout, SavedMessage) = 1
    /\ \A f \in files : f.path = "style_example.mp4"
    /\ (Count(calls, "save") = 1 /\ fault = "none") =>
        /\ files # {}
        /\ pc \in {"print_saved", "done"}
        /\ pc = "print_saved" => ENABLED PrintSaved

C6_Witness ==
    /\ pc = "done"
    /\ stdout = <<WaitingMessage, SavedMessage>>
    /\ files # {}

\* C7: every sleep lasts the same 10 seconds, one per cycle, and the loop
\* has no cap: whatever the number of polls made (within the bound of the
\* model), a not-done snapshot under test lets the loop go round again.
C7_FixedSleepNoCap ==
    /\ \A i \in DOMAIN slept : slept[i] = 10
    /\ Len(slept) = Count(calls, "sleep")
    /\ (pc = "while" /\ ~operation.done /\ Count(calls, "get") < MaxPolls)
        => ENABLED (WhileNotDone /\ pc' = "print_waiting")
    /\ (pc = "while" /\ ~operation.done) => ~ENABLED (WhileNotDone /\ pc' = "select")

C7_Witness ==
    /\ pc = "while"
    /\ ~operation.done
    /\ Count(calls, "get") = MaxPolls
    /\ Len(slept) = MaxPolls

\* C8: the local handle is the most recently fetched snapshot and changes
\* only when generate_videos or operations.get returns; each operations.get
\* is passed the snapshot fetched just before it; a change of the remote job
\* leaves the local handle as it is; and the artifact is read from the final
\* snapshot, the only one with done=true.
C8_HandleIsSnapshot ==
    /\ [](/\ operation = fetched
          /\ snapshots = <<>> => operation = Unbound
          /\ snapshots # <<>> => operation.done = Last(snapshots).done)
    /\ [](pc = "operations_get" => getArg = fetched /\ getArg = operation)
    /\ [][pc' = "operations_get" /\ pc # "operations_get" =>
            getArg' = fetched /\ Count(calls', "get") = Len(snapshots)]_vars
    /\ [][operation' # operation =>
            /\ pc \in {"generate_videos", "operations_get"}
            /\ Len(snapshots') = Len(snapshots) + 1]_vars
    /\ [][(remote.exists /\ remote' # remote) => operation' = operation]_vars
    /\ [](generated_video # NoVideo =>
            /\ Last(snapshots).done
            /\ generated_video = fetched.response.generated_videos[1]
            /\ \A i \in 1..(Len(snapshots) - 1) : ~snapshots[i].done)

C8_Witness ==
    /\ remote.done
    /\ ~operation.done
    /\ pc = "sleep"
    /\ Count(calls, "get") >= 1

\* C9: the calls made so far are always a prefix of: one generate_videos,
\* then cycles of waiting print, sleep, operations.get, then one download,
\* one save, one completion print; and at most one request to the service
\* is outstanding.
C9_SequentialOrder ==
    /\ \E k \in 0..Len(calls) : IsPrefix(calls, FullRun(k))
    /\ Count(calls, "generate_videos") <= 1
    /\ Cardinality(inflight) <= 1
    /\ inflight # {} => inflight = {Last(calls)}

C9_Witness ==
    /\ pc = "done"
    /\ Count(calls, "get") = 2
    /\ Len(calls) = 10

\* C10: a done handle with zero artifacts, or with no response, makes the
\* selection raise: past the loop with such a handle the run is at the
\* selection or faulted by it, and a run faulted by the selection made no
\* download call, wrote no file and printed no completion message.
C10_NoArtifactFaults ==
    /\ (PastLoop /\ NoArtifact(operation)) =>
        pc = "select" \/ (pc = "faulted" /\ fault = "select")
    /\ fault = "select" =>
        /\ pc = "faulted"
        /\ operation.done
        /\ NoArtifact(operation)
        /\ generated_video = NoVideo
        /\ Count(calls, "download") = 0
        /\ Count(calls, "save") = 0
        /\ downloaded = <<>>
        /\ files = {}
        /\ Count(stdout, SavedMessage) = 0

C10_Witness ==
    /\ fault = "select"
    /\ operation.response.present
    /\ operation.response.generated_videos = <<>>

====
